---------------------------- MODULE Spec2Model ----------------------------
(***************************************************************************)
(* Model of src/app.py, a Streamlit dashboard over a cash-register export. *)
(*                                                                         *)
(* A table (pandas DataFrame) is [cols, rows]: cols the set of column      *)
(* names, rows a sequence of [idx, c] with idx the pandas index label and  *)
(* c the row's cells by column.  A cell is a record with a kind k:         *)
(*   "nan"  a missing value (NaN / NaT)                                    *)
(*   "str"  text, in s                                                     *)
(*   "num"  a number, n in cents (amount)                                  *)
(*   "ts"   a timestamp, n in minutes since 2024-01-01 00:00 (a Monday)    *)
(* Text of the categorical columns (item, payment, employee, ticket) is a  *)
(* sequence of one-character strings, so that strip, upper and the search  *)
(* act on characters.  Text of the amount and timestamp columns is a       *)
(* literal that the parsers look up.  Object-dtype semantics of pandas are *)
(* modelled: astype(str) renders a missing value as the text "nan".        *)
(***************************************************************************)
EXTENDS Integers, Sequences, FiniteSets, TLC

VARIABLES
    phase,      \* position of the modelled run
    use_upload, \* the sidebar toggle (line 118)
    uploaded,   \* content of the file in the uploader, or "none" (line 121)
    disk,       \* content of the file at each path, or "none"
    cache,      \* st.cache_data's entries for load_csv, by path (line 29)
    data_path,  \* the selected path, or "none" (lines 123-132)
    raw,        \* the table handed to prepare(), as it was before the call
    df0,        \* the caller's table after the call (lines 138-139)
    df,         \* the normalized table (line 139)
    df2,        \* prepare() applied to df
    raised,     \* the exception that ended the run, or "none"
    widgets,    \* the filter widgets' options and values (lines 146-159)
    df_f,       \* the filtered table (lines 171-173)
    m,          \* kpis(df_f) (line 176)
    msgs,       \* insights_auto(df_f) (line 185)
    ca_pay,     \* revenue by payment, first pie chart (line 196)
    tx_pay      \* transactions by payment, second pie chart (line 207)

vars == <<phase, use_upload, uploaded, disk, cache, data_path, raw, df0, df,
          df2, raised, widgets, df_f, m, msgs, ca_pay, tx_pay>>

---------------------------------------------------------------------------
(* Bounds *)

MaxRows == 2
MaxSearchLen == 2

---------------------------------------------------------------------------
(* Cells and text *)

NaNText == [k |-> "nan", s |-> <<>>]
Text(s) == [k |-> "str", s |-> s]

NaNCell == [k |-> "nan", s |-> "", n |-> 0]
Lit(s) == [k |-> "str", s |-> s, n |-> 0]
Num(n) == [k |-> "num", s |-> "", n |-> n]
Ts(n) == [k |-> "ts", s |-> "", n |-> n]

IsNull(c) == c.k = "nan"

NA_TEXT == <<"N", "/", "A">>
INCONNU == <<"I", "N", "C", "O", "N", "N", "U">>
CB == <<"C", "B">>
ESPECES == <<"E", "S", "P", "E", "C", "E", "S">>

\* str.upper() / str.lower() on one character of the modelled alphabet
UpperChar(ch) ==
    CASE ch = "a" -> "A" [] ch = "b" -> "B" [] ch = "c" -> "C"
      [] ch = "e" -> "E" [] ch = "n" -> "N" [] ch = "p" -> "P"
      [] ch = "s" -> "S" [] OTHER -> ch

LowerChar(ch) ==
    CASE ch = "A" -> "a" [] ch = "B" -> "b" [] ch = "C" -> "c"
      [] ch = "E" -> "e" [] ch = "N" -> "n" [] ch = "P" -> "p"
      [] ch = "S" -> "s" [] OTHER -> ch

Upper(s) == SubSeq([i \in 1..Len(s) |-> UpperChar(s[i])], 1, Len(s))

\* str.strip(): surrounding whitespace removed
RECURSIVE LStrip(_)
LStrip(s) == IF s # <<>> /\ Head(s) = " " THEN LStrip(Tail(s)) ELSE s

RECURSIVE RStrip(_)
RStrip(s) ==
    IF s # <<>> /\ s[Len(s)] = " " THEN RStrip(SubSeq(s, 1, Len(s) - 1)) ELSE s

Strip(s) == RStrip(LStrip(s))

\* Series.astype(str) on one cell of an object column: NaN becomes "nan"
AsTypeStr(c) == IF IsNull(c) THEN Text(<<"n", "a", "n">>) ELSE c

\* Series.astype(str) on one cell of a date / time column (literal text)
AsTypeStrLit(c) == IF IsNull(c) THEN "nan" ELSE c.s

---------------------------------------------------------------------------
(* Parsers *)

MinutesPerDay == 24 * 60

\* the timestamp a literal denotes; day-first where the literal is d/m/y
\* and dayfirst is asked, month-first otherwise; -1 when unparseable.
\* The literals of one column share one format, so that parsing a column
\* cell by cell is what pd.to_datetime does on the column.
ParseDatetime(s, dayfirst) ==
    CASE s = "2024-01-01T09:00:00" -> 540
      [] s = "2024-01-01T10:00:00" -> 600
      [] s = "2024-01-01T11:00:00" -> 660
      [] s = "2024-01-02T10:30:00" -> MinutesPerDay + 630
      [] s = "2024-01-02T14:00:00" -> MinutesPerDay + 840
      [] s = "2024-01-02T15:00:00" -> MinutesPerDay + 900
      [] s = "2024-01-02 10:30:00" -> MinutesPerDay + 630
      [] s = "2024-01-02 14:00:00" -> MinutesPerDay + 840
      [] s = "01/02/2024 09:00" ->
            IF dayfirst THEN 31 * MinutesPerDay + 540 ELSE MinutesPerDay + 540
      [] s = "13/01/2024 09:00" -> 12 * MinutesPerDay + 540
      [] OTHER -> -1

\* ToDatetime parsing text only: a value that is a timestamp already is lost
ToDatetimeTextOnly(c, dayfirst) ==
    IF c.k = "str" /\ ParseDatetime(c.s, dayfirst) >= 0
    THEN Ts(ParseDatetime(c.s, dayfirst)) ELSE NaNCell

\* pd.to_datetime(x, errors="coerce") on one cell
ToDatetime(c, dayfirst) ==
    CASE c.k = "ts" -> c
      [] c.k = "str" ->
            IF ParseDatetime(c.s, dayfirst) < 0 THEN NaNCell
            ELSE Ts(ParseDatetime(c.s, dayfirst))
      [] OTHER -> NaNCell

\* the number (in cents) a literal denotes; NaN when unparseable
ParseNumber(s) ==
    CASE s = "10.5" -> Num(1050)
      [] s = "20" -> Num(2000)
      [] s = "0" -> Num(0)
      [] s = "-3" -> Num(-300)
      [] OTHER -> NaNCell

\* pd.to_numeric(x, errors="coerce") on one cell
ToNumeric(c) ==
    CASE c.k = "num" -> c
      [] c.k = "str" -> ParseNumber(c.s)
      [] OTHER -> NaNCell

DayNames == <<"Monday", "Tuesday", "Wednesday", "Thursday", "Friday",
              "Saturday", "Sunday">>

DateOf(n) == n \div MinutesPerDay
HourOf(n) == (n % MinutesPerDay) \div 60
DayName(n) == DayNames[(DateOf(n) % 7) + 1]

---------------------------------------------------------------------------
(* Tables *)

EmptyTable == [cols |-> {}, rows |-> <<>>]

\* the row labels of t, and df[c] at row i
RowsIn(t) == 1..Len(t.rows)
Cell(t, i, c) == t.rows[i].c[c]

\* df[c] = vals: column c added or overwritten, in place; vals[i] is the
\* value for row i
SetCol(t, c, vals) ==
    [cols |-> t.cols \cup {c},
     rows |-> SubSeq([i \in RowsIn(t) |->
                        [idx |-> t.rows[i].idx,
                         c |-> (c :> vals[i]) @@ t.rows[i].c]],
                     1, Len(t.rows))]

\* the rows from row i on whose mask is true
RECURSIVE Pick(_, _, _)
Pick(rows, mask, i) ==
    IF i > Len(rows) THEN <<>>
    ELSE (IF mask[i] THEN <<rows[i]>> ELSE <<>>) \o Pick(rows, mask, i + 1)

\* df[mask].copy()
Where(t, mask) == [cols |-> t.cols, rows |-> Pick(t.rows, mask, 1)]

\* df.dropna(subset=[c]).copy()
DropNa(t, c) == Where(t, [i \in RowsIn(t) |-> ~IsNull(Cell(t, i, c))])

---------------------------------------------------------------------------
(* prepare(), lines 33-65 *)

\* lines 35-42: the dt column, written on the caller's table
HasTimestampSource(t) ==
    \/ "dt_iso" \in t.cols
    \/ "dt" \in t.cols
    \/ {"date", "time"} \subseteq t.cols

DeriveDt(t) ==
    IF "dt_iso" \in t.cols
    THEN SetCol(t, "dt", [i \in RowsIn(t) |->
            ToDatetime(Cell(t, i, "dt_iso"), FALSE)])
    ELSE IF "dt" \in t.cols
    THEN SetCol(t, "dt", [i \in RowsIn(t) |->
            ToDatetime(Cell(t, i, "dt"), FALSE)])
    ELSE SetCol(t, "dt", [i \in RowsIn(t) |->
            ToDatetime(Lit(AsTypeStrLit(Cell(t, i, "date")) \o " "
                           \o AsTypeStrLit(Cell(t, i, "time"))), TRUE)])

\* line 47
NumericAmount(t) ==
    SetCol(t, "amount", [i \in RowsIn(t) |-> ToNumeric(Cell(t, i, "amount"))])

\* line 49
PositiveAmount(t) == Where(t, [i \in RowsIn(t) |-> Cell(t, i, "amount").n > 0])

\* lines 47-49
CleanAmount(t) == PositiveAmount(DropNa(NumericAmount(t), "amount"))

\* line 55
StripText(t, c) ==
    SetCol(t, c, [i \in RowsIn(t) |-> Text(Strip(AsTypeStr(Cell(t, i, c)).s))])

\* CleanText filling an absent column with the empty text
CleanTextBlankDefault(t, c) ==
    IF c \notin t.cols
    THEN StripText(SetCol(t, c, [i \in RowsIn(t) |-> Text(<<>>)]), c)
    ELSE StripText(t, c)

\* lines 53-55 for one column
CleanText(t, c) ==
    IF c \notin t.cols
    THEN StripText(SetCol(t, c, [i \in RowsIn(t) |-> Text(NA_TEXT)]), c)
    ELSE StripText(t, c)

\* lines 52-55
CleanTexts(t) ==
    CleanText(CleanText(CleanText(CleanText(t, "payment"), "item"),
                        "employee"), "ticket")

\* CleanPayment without the sentinel of line 58
CleanPaymentNoSentinel(t) ==
    SetCol(t, "payment", [i \in RowsIn(t) |->
        Text(Upper(Cell(t, i, "payment").s))])

\* CleanPayment turning a blank payment into a missing value
CleanPaymentBlankToNaN(t) ==
    SetCol(t, "payment", [i \in RowsIn(t) |->
        IF Upper(Cell(t, i, "payment").s) = <<>> THEN NaNText
        ELSE Text(Upper(Cell(t, i, "payment").s))])

\* lines 57-58
CleanPayment(t) ==
    SetCol(t, "payment", [i \in RowsIn(t) |->
        IF Upper(Cell(t, i, "payment").s) = <<>> THEN Text(INCONNU)
        ELSE Text(Upper(Cell(t, i, "payment").s))])

\* lines 61-63, one column each
DateOnly(t) ==
    SetCol(t, "date_only", [i \in RowsIn(t) |-> Num(DateOf(Cell(t, i, "dt").n))])
Hour(t) ==
    SetCol(t, "hour", [i \in RowsIn(t) |-> Num(HourOf(Cell(t, i, "dt").n))])
Weekday(t) ==
    SetCol(t, "weekday", [i \in RowsIn(t) |-> Lit(DayName(Cell(t, i, "dt").n))])

\* lines 61-63
TimeFeatures(t) == Weekday(Hour(DateOnly(t)))

\* prepare(df): [exc, src, out] with exc the exception raised ("none" when
\* it returns), src the caller's table after the call, out the result
\* lines 44-65, src being the caller's table with its dt column written
PrepareFrom(src) ==
    IF "amount" \notin src.cols
    THEN [exc |-> "KeyError", src |-> src, out |-> EmptyTable]
    ELSE [exc |-> "none", src |-> src,
          out |-> TimeFeatures(CleanPayment(CleanTexts(
                      CleanAmount(DropNa(src, "dt")))))]

Prepare(t) ==
    IF ~HasTimestampSource(t)
    THEN [exc |-> "KeyError", src |-> t, out |-> EmptyTable]
    ELSE PrepareFrom(DeriveDt(t))

---------------------------------------------------------------------------
(* Filters, lines 146-173 *)

ColumnValues(t, c) == {t.rows[i].c[c] : i \in 1..Len(t.rows)}

\* sorted(df[c].unique()): the options of a multiselect
Options(t, c) == {v.s : v \in ColumnValues(t, c)}

Min(S) == CHOOSE x \in S : \A y \in S : x <= y
Max(S) == CHOOSE x \in S : \A y \in S : x >= y

Dates(t) == {v.n : v \in ColumnValues(t, "date_only")}

\* no widget shown: no date bounds (-1), no options
NoWidgets ==
    [rendered |-> FALSE, min_d |-> -1, max_d |-> -1, range |-> <<>>,
     pay_opts |-> {}, pay |-> {}, emp_opts |-> {}, emp |-> {},
     item_opts |-> {}, item |-> {}, ticket |-> <<>>]

\* lines 146-159 on a rerun: a widget whose options are those of the last
\* run keeps the user's value, any other one shows its default
RenderWith(w, min_d, max_d, pays, emps, its) ==
    [rendered |-> TRUE, min_d |-> min_d, max_d |-> max_d,
     range |-> IF w.rendered /\ w.min_d = min_d /\ w.max_d = max_d
               THEN w.range ELSE <<min_d, max_d>>,
     pay_opts |-> pays,
     pay |-> IF w.rendered /\ w.pay_opts = pays THEN w.pay ELSE pays,
     emp_opts |-> emps,
     emp |-> IF w.rendered /\ w.emp_opts = emps THEN w.emp ELSE emps,
     item_opts |-> its,
     item |-> IF w.rendered /\ w.item_opts = its THEN w.item ELSE its,
     ticket |-> IF w.rendered THEN w.ticket ELSE <<>>]

RenderWidgets(w, t) ==
    RenderWith(w, Min(Dates(t)), Max(Dates(t)), Options(t, "payment"),
               Options(t, "employee"), Options(t, "item"))

\* lines 163-171
Mask(t, w) ==
    Where(t, [i \in RowsIn(t) |->
        /\ Cell(t, i, "date_only").n >= w.range[1]
        /\ Cell(t, i, "date_only").n <= w.range[2]
        /\ Cell(t, i, "payment").s \in w.pay
        /\ Cell(t, i, "employee").s \in w.emp
        /\ Cell(t, i, "item").s \in w.item])

\* re.compile(pat) fails: over the modelled characters, an opening
\* parenthesis is never closed
RegexError(pat) == \E i \in 1..Len(pat) : pat[i] = "("

\* re.search(pat, s, re.IGNORECASE) for a pattern of literals and dots
RegexSearch(pat, s) ==
    \E off \in 0..(Len(s) - Len(pat)) :
        \A i \in 1..Len(pat) :
            pat[i] = "." \/ LowerChar(pat[i]) = LowerChar(s[off + i])

\* Series.str.contains(pat, case=False, na=False) on one cell
StrContains(c, pat) == IF IsNull(c) THEN FALSE ELSE RegexSearch(pat, c.s)

\* line 173
TicketFilter(t, pat) ==
    Where(t, [i \in RowsIn(t) |-> StrContains(Cell(t, i, "ticket"), pat)])

---------------------------------------------------------------------------
(* Aggregates and insights, lines 67-107 and 196-207 *)

RECURSIVE SumAmount(_)
SumAmount(rows) ==
    IF rows = <<>> THEN 0 ELSE Head(rows).c["amount"].n + SumAmount(Tail(rows))

\* the group keys of groupby(c) / value_counts(): null keys are left out
GroupKeys(t, c) == {v \in ColumnValues(t, c) : ~IsNull(v)}

\* df.groupby(c)["amount"].sum()
GroupSum(t, c) ==
    [key \in GroupKeys(t, c) |->
        SumAmount(SelectSeq(t.rows, LAMBDA r: r.c[c] = key))] @@ <<>>

\* df[c].value_counts()
ValueCounts(t, c) ==
    [key \in GroupKeys(t, c) |->
        Len(SelectSeq(t.rows, LAMBDA r: r.c[c] = key))] @@ <<>>

RECURSIVE Total(_)
Total(f) ==
    IF DOMAIN f = {} THEN 0
    ELSE LET x == CHOOSE y \in DOMAIN f : TRUE
         IN  f[x] + Total([y \in DOMAIN f \ {x} |-> f[y]] @@ <<>>)

\* kpis() without the guards on an empty table: the mean of no rows
KpisUnguarded(t) ==
    [tx |-> Len(t.rows), ca |-> SumAmount(t.rows),
     panier |-> [num |-> SumAmount(t.rows), den |-> Len(t.rows)]]

\* kpis(), lines 67-71; panier is the quotient num / den
KpisOf(tx, total) ==
    [tx |-> tx,
     ca |-> IF tx # 0 THEN total ELSE 0,
     panier |-> IF tx # 0 THEN [num |-> total, den |-> tx]
                ELSE [num |-> 0, den |-> 1]]

Kpis(t) == KpisOf(Len(t.rows), SumAmount(t.rows))

\* sort_values() with the sense of `ascending' inverted
RECURSIVE SortValuesFlipped(_, _, _)
SortValuesFlipped(f, keys, ascending) ==
    IF keys = {} THEN {<<>>}
    ELSE UNION {{<<x>> \o q : q \in SortValuesFlipped(f, keys \ {x}, ascending)} :
                x \in {x \in keys : \A y \in keys :
                          IF ascending THEN f[x] >= f[y] ELSE f[x] <= f[y]}}

\* sort_values(): every order of the keys of f by value, descending or
\* ascending; equal values come in any order
RECURSIVE SortValues(_, _, _)
SortValues(f, keys, ascending) ==
    IF keys = {} THEN {<<>>}
    ELSE UNION {{<<x>> \o q : q \in SortValues(f, keys \ {x}, ascending)} :
                x \in {x \in keys : \A y \in keys :
                          IF ascending THEN f[x] <= f[y] ELSE f[x] >= f[y]}}

HeadN(q, n) == SubSeq(q, 1, IF Len(q) < n THEN Len(q) ELSE n)
TailN(q, n) == SubSeq(q, IF Len(q) < n THEN 1 ELSE Len(q) - n + 1, Len(q))
Range(q) == {q[i] : i \in 1..Len(q)}

TopN == 3

\* one message of insights_auto(): the values its text is formatted from
Msg(kind, hours, name, v, cb, cash) ==
    [kind |-> kind, hours |-> hours, name |-> name, v |-> v, cb |-> cb,
     cash |-> cash]

NoDataMsg == Msg("no_data", <<>>, <<>>, 0, 0, 0)
ActionMsg == Msg("action", <<>>, <<>>, 0, 0, 0)

HourList(f, q) ==
    SubSeq([i \in 1..Len(q) |-> [h |-> q[i].n, v |-> f[q[i]]]], 1, Len(q))

\* Series.get(key, 0.0)
Get(f, key) == IF key \in DOMAIN f THEN f[key] ELSE 0

\* lines 87-92
ShareOf(ca_p, ca_total) ==
    IF ca_total > 0 /\ (Text(CB) \in DOMAIN ca_p \/ Text(ESPECES) \in DOMAIN ca_p)
    THEN <<Msg("share", <<>>, <<>>, ca_total, Get(ca_p, Text(CB)),
               Get(ca_p, Text(ESPECES)))>>
    ELSE <<>>

ShareMsgs(t) ==
    ShareOf(GroupSum(t, "payment"), Total(GroupSum(t, "payment")))

\* lines 95-103 for one grouping: the first key by revenue
TopOf(f, kind) ==
    {IF q = <<>> THEN <<>> ELSE <<Msg(kind, <<>>, q[1].s, f[q[1]], 0, 0)>> :
        q \in SortValues(f, DOMAIN f, FALSE)}

TopMsgs(t, c, kind) == TopOf(GroupSum(t, c), kind)

\* lines 79-84 and on, ca_hour being the revenue by hour
InsightsOf(t, ca_hour) ==
    UNION {UNION {
        {<<Msg("top", HourList(ca_hour, HeadN(srt, TopN)), <<>>, 0, 0, 0),
           Msg("low", HourList(ca_hour, low), <<>>, 0, 0, 0)>>
         \o ShareMsgs(t) \o ti \o te \o <<ActionMsg>> :
             ti \in TopMsgs(t, "item", "item"),
             te \in TopMsgs(t, "employee", "employee")} :
        low \in SortValues(ca_hour, Range(TailN(srt, TopN)), TRUE)} :
        srt \in SortValues(ca_hour, DOMAIN ca_hour, FALSE)}

\* insights_auto(), lines 73-107: the lists of messages it may return
InsightsAuto(t) ==
    IF Len(t.rows) = 0 THEN {<<NoDataMsg>>}
    ELSE InsightsOf(t, GroupSum(t, "hour"))

---------------------------------------------------------------------------
(* The script from prepare() on, lines 139-211, over the loaded table t    *)
(* and the widget state w: the values each variable ends the run with,     *)
(* and the lists insights_auto() may return                                *)

NoKpis == [tx |-> 0, ca |-> 0, panier |-> [num |-> 0, den |-> 1]]
NoGroups == <<>>

Failed(p, exc, w) ==
    [phase |-> "failed", raised |-> exc, df0 |-> p.src, df |-> p.out,
     widgets |-> w, df_f |-> EmptyTable, m |-> NoKpis, ca_pay |-> NoGroups,
     tx_pay |-> NoGroups, insights |-> {<<>>}]

\* lines 176-211
Render(p, w1, f) ==
    [phase |-> "done", raised |-> "none", df0 |-> p.src, df |-> p.out,
     widgets |-> w1, df_f |-> f, m |-> Kpis(f),
     ca_pay |-> IF Len(f.rows) # 0 THEN GroupSum(f, "payment") ELSE NoGroups,
     tx_pay |-> IF Len(f.rows) # 0 THEN ValueCounts(f, "payment")
                ELSE NoGroups,
     insights |-> InsightsAuto(f)]

\* lines 171-173
Search(p, w1, masked, pat) ==
    IF pat = <<>> THEN Render(p, w1, masked)
    ELSE IF RegexError(pat) THEN Failed(p, "re.error", w1)
    ELSE Render(p, w1, TicketFilter(masked, pat))

\* lines 162-171
Filter(p, w1) ==
    \* line 162: a range of one date does not unpack
    IF Len(w1.range) # 2 THEN Failed(p, "ValueError", w1)
    ELSE Search(p, w1, Mask(p.out, w1), Strip(w1.ticket))

\* lines 141-159
Sidebar(p, w) ==
    IF p.exc # "none" THEN Failed(p, p.exc, NoWidgets)
    ELSE IF Len(p.out.rows) = 0
    \* line 148: min_d and max_d are NaN, st.date_input refuses them
    THEN Failed(p, "StreamlitAPIException", NoWidgets)
    ELSE Filter(p, RenderWidgets(w, p.out))

Body(t, w) == Sidebar(Prepare(t), w)

---------------------------------------------------------------------------
(* Raw tables for the checks of prepare() *)

\* the raw columns of each checked layout, with the cells each may hold
Schemas ==
    { [item |-> {Text(<<" ", "s", "p", "a", " ">>)},
       amount |-> {Lit("abc"), Lit("-3"), Lit("10.5")},
       payment |-> {NaNText, Text(<<" ">>), Text(<<" ", "c", "b">>)},
       employee |-> {Text(<<"b", "e", "n">>)},
       ticket |-> {Text(<<"A", "1", "0">>)},
       dt_iso |-> {Lit("pas une date"), Lit("2024-01-01T09:00:00")}],
      [amount |-> {NaNCell, Lit("10.5")},
       dt_iso |-> {NaNCell, Lit("2024-01-01T10:00:00")},
       dt |-> {Lit("2024-01-02 10:30:00"), Lit("demain")}],
      [amount |-> {Lit("0"), Lit("20")},
       payment |-> {Text(<<"c", "b", " ">>)},
       ticket |-> {NaNText},
       dt |-> {NaNCell, Lit("2024-01-02 14:00:00")}],
      [amount |-> {Lit("10.5"), Lit("20")},
       payment |-> {Text(<<" ">>), Text(<<"e", "s", "p", "e", "c", "e", "s">>)},
       date |-> {Lit("hier"), Lit("01/02/2024"), Lit("13/01/2024")},
       time |-> {Lit("09:00")}],
      [payment |-> {NaNText, Text(<<"c", "b">>)},
       item |-> {Text(<<"s", "p", "a">>)},
       dt_iso |-> {Lit("pas une date"), Lit("2024-01-01T09:00:00")}],
      [amount |-> {Lit("10.5")},
       payment |-> {Text(<<"c", "b">>)},
       date |-> {Lit("hier"), Lit("01/02/2024")}],
      [amount |-> {Lit("-3"), Lit("10.5")},
       dt_iso |-> {Lit("pas une date"), Lit("2024-01-01T09:00:00")}] }

\* every row of a layout, column by column
RECURSIVE RowsOf(_, _)
RowsOf(sch, cols) ==
    IF cols = {} THEN {<<>>}
    ELSE LET c == CHOOSE x \in cols : TRUE
         IN  {(c :> v) @@ r : r \in RowsOf(sch, cols \ {c}), v \in sch[c]}

RECURSIVE SeqsUpTo(_, _)
SeqsUpTo(S, n) ==
    IF n = 0 THEN {<<>>}
    ELSE LET shorter == SeqsUpTo(S, n - 1)
         IN  shorter \cup {Append(q, x) : q \in {p \in shorter : Len(p) = n - 1},
                                          x \in S}

\* pd.read_csv gives the rows the index labels 0, 1, ...
MkTable(cols, cells) ==
    [cols |-> cols,
     rows |-> SubSeq([i \in 1..Len(cells) |-> [idx |-> i - 1, c |-> cells[i]]],
                     1, Len(cells))]

RawTables ==
    UNION {{MkTable(DOMAIN sch, q) :
               q \in SeqsUpTo(RowsOf(sch, DOMAIN sch), MaxRows)} :
           sch \in Schemas}

---------------------------------------------------------------------------
(* The files of the application *)

TmpPath == "uploaded_caisse_clean.csv"
DefaultPaths == <<"output_caisse/data_clean/caisse_clean.csv",
                  "~/Desktop/caisse_sale_clean.csv">>
Paths == {TmpPath} \cup Range(DefaultPaths)

F1Row(amount, payment, employee, ticket, dt_iso) ==
    [item |-> Text(<<"s", "p", "a">>), amount |-> amount,
     payment |-> payment, employee |-> employee, ticket |-> ticket,
     dt_iso |-> dt_iso]

\* pd.read_csv(path): the table each modelled file content parses to
ReadCsv(content) ==
    CASE content = "F1" ->
            MkTable({"item", "amount", "payment", "employee", "ticket", "dt_iso"},
              <<F1Row(Lit("10.5"), Text(<<"c", "b">>), Text(<<"b", "e", "n">>),
                      Text(<<"A", "1", "0">>), Lit("2024-01-01T09:00:00")),
                F1Row(Lit("20"), Text(<<"e", "s", "p", "e", "c", "e", "s">>),
                      Text(<<"b", "e", "n">>), Text(<<"b", "2">>),
                      Lit("2024-01-01T10:00:00")),
                F1Row(Lit("10.5"), Text(<<" ">>), Text(<<"b", "e", "n">>),
                      Text(<<"a", "1", "9", "9">>), Lit("2024-01-02T10:30:00")),
                F1Row(Lit("-3"), Text(<<"c", "b">>), Text(<<"b", "e", "n">>),
                      Text(<<"A", "1", "0">>), Lit("2024-01-01T11:00:00")),
                F1Row(Lit("20"), Text(<<"C", "B", " ">>), Text(<<"b", "e", "n">>),
                      NaNText, Lit("2024-01-01T11:00:00")),
                F1Row(Lit("10.5"), Text(<<"e", "s", "p", "e", "c", "e", "s">>),
                      Text(<<"b", "e", "n">>), Text(<<"b", "2">>),
                      Lit("2024-01-02T14:00:00")),
                F1Row(Lit("20"), Text(<<"c", "b">>), Text(<<"b", "e", "n">>),
                      Text(<<"A", "1", "0">>), Lit("2024-01-02T15:00:00"))>>)
      [] content = "F2" ->
            MkTable({"amount", "payment", "date", "time"},
              <<[amount |-> Lit("20"), payment |-> Text(<<"c", "b">>),
                 date |-> Lit("01/02/2024"), time |-> Lit("09:00")],
                [amount |-> Lit("10.5"), payment |-> NaNText,
                 date |-> Lit("13/01/2024"), time |-> Lit("09:00")]>>)
      [] content = "D1" ->
            MkTable({"amount", "dt_iso"},
              <<[amount |-> Lit("10.5"), dt_iso |-> Lit("2024-01-01T09:00:00")]>>)
      [] content = "D2" ->
            MkTable({"amount", "payment", "dt"},
              <<[amount |-> Lit("abc"), payment |-> Text(<<"c", "b">>),
                 dt |-> Lit("2024-01-02 10:30:00")]>>)

Uploads == {"F1", "F2"}

\* what the default paths may hold when the application starts
DefaultFiles == {<<"none", "none">>, <<"D1", "D2">>, <<"none", "D2">>}

NoEntry == [hit |-> FALSE, t |-> EmptyTable]

---------------------------------------------------------------------------
(* One run of the script, lines 113-211 *)

\* lines 129-132: the first default path that exists
RECURSIVE FirstExisting(_, _)
FirstExisting(d, paths) ==
    IF paths = <<>> THEN "none"
    ELSE IF d[Head(paths)] # "none" THEN Head(paths)
    ELSE FirstExisting(d, Tail(paths))

\* load_csv(path), lines 29-31: st.cache_data keys the entry by the path
LoadCsv(c, d, path) ==
    IF c[path].hit THEN c[path] ELSE [hit |-> TRUE, t |-> ReadCsv(d[path])]

\* lines 138-211: the loaded entry e and the results r of the run on it
Loaded(path, e, r) ==
    /\ cache' = [cache EXCEPT ![path] = e]
    /\ raw' = e.t
    /\ phase' = r.phase
    /\ raised' = r.raised
    /\ df0' = r.df0
    /\ df' = r.df
    /\ widgets' = r.widgets
    /\ df_f' = r.df_f
    /\ m' = r.m
    /\ ca_pay' = r.ca_pay
    /\ tx_pay' = r.tx_pay
    /\ msgs' \in r.insights

\* lines 134-136: st.error, st.stop
Stopped ==
    /\ phase' = "stopped"
    /\ raised' = "none"
    /\ cache' = cache
    /\ raw' = EmptyTable
    /\ df0' = EmptyTable
    /\ df' = EmptyTable
    /\ widgets' = NoWidgets
    /\ df_f' = EmptyTable
    /\ m' = NoKpis
    /\ ca_pay' = NoGroups
    /\ tx_pay' = NoGroups
    /\ msgs' = <<>>

\* lines 123-139, d being the disk once the upload is written
RunOn(d, path, w) ==
    /\ disk' = d
    /\ data_path' = path
    /\ df2' = EmptyTable
    /\ IF path = "none" THEN Stopped
       ELSE Loaded(path, LoadCsv(cache, d, path),
                   Body(LoadCsv(cache, d, path).t, w))

\* the run with the toggle at use, the uploader holding up and the filter
\* widgets as the user left them
RunScript(use, up, w) ==
    /\ use_upload' = use
    /\ uploaded' = up
    /\ IF up # "none"
       THEN RunOn([disk EXCEPT ![TmpPath] = up], TmpPath, w)
       ELSE RunOn(disk, FirstExisting(disk, DefaultPaths), w)

\* what the text input of line 159 is given in the application's runs
SearchInputs == {<<>>, <<"a", "1">>}

\* the values st.date_input returns for a range within [lo, hi]: both
\* ends, or the start alone while the end is not picked yet
DateRanges(lo, hi) ==
    {<<a, b>> : a \in {lo, hi}, b \in {lo, hi}} \cup {<<a>> : a \in {lo, hi}}

Init ==
    /\ phase = "start"
    /\ use_upload = FALSE
    /\ uploaded = "none"
    /\ \E f \in DefaultFiles :
          disk = [p \in Paths |-> IF p = DefaultPaths[1] THEN f[1]
                                  ELSE IF p = DefaultPaths[2] THEN f[2]
                                  ELSE "none"]
    /\ cache = [p \in Paths |-> NoEntry]
    /\ data_path = "none"
    /\ raw = EmptyTable
    /\ df0 = EmptyTable
    /\ df = EmptyTable
    /\ df2 = EmptyTable
    /\ raised = "none"
    /\ widgets = NoWidgets
    /\ df_f = EmptyTable
    /\ m = NoKpis
    /\ msgs = <<>>
    /\ ca_pay = NoGroups
    /\ tx_pay = NoGroups

\* the page is opened or rerun with nothing changed
Rerun == RunScript(use_upload, uploaded, widgets)

\* line 118; an uploader that is not shown forgets its file
ToggleUpload == RunScript(~use_upload, "none", widgets)

\* line 121
UploadFile == /\ use_upload
              /\ \E f \in Uploads : RunScript(TRUE, f, widgets)

RemoveUpload == /\ use_upload
                /\ uploaded # "none"
                /\ RunScript(TRUE, "none", widgets)

\* line 148
SetDateRange ==
    /\ widgets.rendered
    /\ \E r \in DateRanges(widgets.min_d, widgets.max_d) :
          /\ Len(r) = 2 => r[1] <= r[2]
          /\ RunScript(use_upload, uploaded, [widgets EXCEPT !.range = r])

\* line 151
SetPayments ==
    /\ widgets.rendered
    /\ \E S \in SUBSET widgets.pay_opts :
          RunScript(use_upload, uploaded, [widgets EXCEPT !.pay = S])

\* line 154
SetEmployees ==
    /\ widgets.rendered
    /\ \E S \in SUBSET widgets.emp_opts :
          RunScript(use_upload, uploaded, [widgets EXCEPT !.emp = S])

\* line 157
SetItems ==
    /\ widgets.rendered
    /\ \E S \in SUBSET widgets.item_opts :
          RunScript(use_upload, uploaded, [widgets EXCEPT !.item = S])

\* line 159
SetTicketSearch ==
    /\ widgets.rendered
    /\ \E s \in SearchInputs :
          RunScript(use_upload, uploaded, [widgets EXCEPT !.ticket = s])

Next ==
    \/ Rerun
    \/ ToggleUpload
    \/ UploadFile
    \/ RemoveUpload
    \/ SetDateRange
    \/ SetPayments
    \/ SetEmployees
    \/ SetItems
    \/ SetTicketSearch

Spec == Init /\ [][Next]_vars

---------------------------------------------------------------------------
(* Specification of prepare() alone: df = prepare(df0), then prepare(df) *)

InitPrepare ==
    /\ phase = "loaded"
    /\ raw \in RawTables
    /\ df0 = raw
    /\ df = EmptyTable
    /\ df2 = EmptyTable
    /\ raised = "none"
    /\ use_upload = FALSE
    /\ uploaded = "none"
    /\ disk = [p \in Paths |-> "none"]
    /\ cache = [p \in Paths |-> NoEntry]
    /\ data_path = "none"
    /\ widgets = NoWidgets
    /\ df_f = EmptyTable
    /\ m = NoKpis
    /\ msgs = <<>>
    /\ ca_pay = NoGroups
    /\ tx_pay = NoGroups

Session == <<use_upload, uploaded, disk, cache, data_path, widgets>>
Outputs == <<df_f, m, msgs, ca_pay, tx_pay>>

Prepared(p) ==
    /\ df0' = p.src
    /\ df' = p.out
    /\ raised' = p.exc
    /\ phase' = IF p.exc = "none" THEN "prepared" ELSE "failed"

PreparedAgain(p) ==
    /\ df2' = p.out
    /\ raised' = p.exc
    /\ phase' = IF p.exc = "none" THEN "prepared2" ELSE "failed2"

DoPrepare ==
    /\ phase = "loaded"
    /\ Prepared(Prepare(df0))
    /\ UNCHANGED <<raw, df2, Session, Outputs>>

DoPrepareAgain ==
    /\ phase = "prepared"
    /\ PreparedAgain(Prepare(df))
    /\ UNCHANGED <<raw, df0, df, Session, Outputs>>

NextPrepare == DoPrepare \/ DoPrepareAgain

SpecPrepare == InitPrepare /\ [][NextPrepare]_vars

---------------------------------------------------------------------------
(* Specification of the ticket search: a loaded table, a typed search,     *)
(* every other filter at its default, and the script run on them           *)

SearchChars == {"a", "1", ".", "(", " "}

TicketSchemas ==
    { [amount |-> {Lit("10.5")},
       dt_iso |-> {Lit("2024-01-01T09:00:00")},
       ticket |-> {NaNText, Text(<<"A", "1", "0">>), Text(<<"b", "2">>),
                   Text(<<"a", "1", "9", "9">>)}],
      [amount |-> {Lit("10.5"), Lit("20")},
       dt_iso |-> {Lit("2024-01-01T09:00:00")}] }

TicketTables ==
    UNION {{MkTable(DOMAIN sch, q) :
               q \in SeqsUpTo(RowsOf(sch, DOMAIN sch), MaxRows)} :
           sch \in TicketSchemas}

InitTicket ==
    /\ phase = "loaded"
    /\ raw \in TicketTables
    /\ widgets \in {[NoWidgets EXCEPT !.ticket = s] :
                        s \in SeqsUpTo(SearchChars, MaxSearchLen)}
    /\ df0 = raw
    /\ df = EmptyTable
    /\ df2 = EmptyTable
    /\ raised = "none"
    /\ use_upload = FALSE
    /\ uploaded = "none"
    /\ disk = [p \in Paths |-> "none"]
    /\ cache = [p \in Paths |-> NoEntry]
    /\ data_path = "none"
    /\ df_f = EmptyTable
    /\ m = NoKpis
    /\ msgs = <<>>
    /\ ca_pay = NoGroups
    /\ tx_pay = NoGroups

Ran(r) ==
    /\ phase' = r.phase
    /\ raised' = r.raised
    /\ df0' = r.df0
    /\ df' = r.df
    /\ widgets' = r.widgets
    /\ df_f' = r.df_f
    /\ m' = r.m
    /\ ca_pay' = r.ca_pay
    /\ tx_pay' = r.tx_pay
    /\ msgs' \in r.insights

\* lines 139-211 with the search typed into a fresh page
RunSearch ==
    /\ phase = "loaded"
    /\ Ran(Body(raw, [NoWidgets EXCEPT !.rendered = TRUE,
                                        !.ticket = widgets.ticket]))
    /\ UNCHANGED <<raw, df2, use_upload, uploaded, disk, cache, data_path>>

NextTicket == RunSearch

SpecTicket == InitTicket /\ [][NextTicket]_vars

---------------------------------------------------------------------------
(* Claims about prepare(), checked under SpecPrepare *)

TextCols == {"payment", "item", "employee", "ticket"}

FirstCallDone == phase \in {"prepared", "failed"}

\* C1: every row of the table prepare() returns has amount > 0, a
\* non-empty payment text and a non-null dt, whichever timestamp branch
\* was taken.
C1_NormalizedRows ==
    phase = "prepared" =>
        \A i \in 1..Len(df.rows) :
            LET c == df.rows[i].c
            IN  /\ c["amount"].k = "num" /\ c["amount"].n > 0
                /\ c["payment"].k = "str" /\ c["payment"].s # <<>>
                /\ c["dt"].k = "ts"

\* a table with a blank payment kept and another row dropped
C1_Witness ==
    /\ phase = "prepared"
    /\ Len(df.rows) > 0
    /\ Len(df.rows) < Len(raw.rows)
    /\ \E i \in 1..Len(df.rows) : df.rows[i].c["payment"].s = INCONNU

\* C2 as stated: whenever an expected column is absent from the raw
\* table, prepare() completes without raising.
C2_NeverFatal ==
    FirstCallDone /\ ("amount" \notin raw.cols \/ ~HasTimestampSource(raw)
                      \/ TextCols \ raw.cols # {})
        => raised = "none"

\* C2 amended: prepare() raises KeyError exactly when the amount column
\* or every timestamp source is absent; when it returns, each absent
\* item / payment / employee / ticket column holds "N/A" in every row.
C2_OptionalColumnsDefault ==
    FirstCallDone =>
        /\ (raised = "KeyError") <=>
               ("amount" \notin raw.cols \/ ~HasTimestampSource(raw))
        /\ raised = "none" =>
               \A col \in TextCols \ raw.cols : \A i \in 1..Len(df.rows) :
                   df.rows[i].c[col] = Text(NA_TEXT)

C2_Witness ==
    /\ phase = "prepared"
    /\ "ticket" \notin raw.cols
    /\ "payment" \notin raw.cols
    /\ Len(df.rows) > 0

\* C5: prepare() leaves the caller's table as it was (same columns, same
\* cells), and returns source rows only, in source order.
C5_PureTransform ==
    FirstCallDone =>
        /\ df0 = raw
        /\ Len(df.rows) <= Len(raw.rows)
        /\ \A i \in 1..Len(df.rows) :
               /\ df.rows[i].idx \in {raw.rows[j].idx : j \in 1..Len(raw.rows)}
               /\ i > 1 => df.rows[i - 1].idx < df.rows[i].idx

\* C6: prepare(prepare(T)) has the rows of prepare(T), with the same
\* value in every normalized column.
NormalizedCols ==
    {"amount", "payment", "item", "employee", "ticket", "dt", "date_only",
     "hour", "weekday"}

---------------------------------------------------------------------------
(* Claims about the ticket search, checked under SpecTicket *)

\* s holds pat as a literal substring, letter case apart
LiteralContains(s, pat) ==
    \E off \in 0..(Len(s) - Len(pat)) :
        \A i \in 1..Len(pat) : LowerChar(pat[i]) = LowerChar(s[off + i])

Kept(idx) == \E j \in 1..Len(df_f.rows) : df_f.rows[j].idx = idx

SearchActive == phase \in {"done", "failed"} /\ Strip(widgets.ticket) # <<>>

\* C3: with a non-empty search s, a row that passed the other filters is
\* kept if and only if its ticket contains s as a case-insensitive literal
\* substring, for every s.  (Under SpecTicket the other filters are at
\* their defaults and let every row of df pass.)
C3_LiteralSubstring ==
    SearchActive =>
        /\ raised = "none"
        /\ \A i \in 1..Len(df.rows) :
               Kept(df.rows[i].idx) <=>
                   LiteralContains(df.rows[i].c["ticket"].s,
                                   Strip(widgets.ticket))

\* the ticket a row had in the source is null or missing
SourceTicketMissing(idx) ==
    \/ "ticket" \notin raw.cols
    \/ \E i \in 1..Len(raw.rows) :
          raw.rows[i].idx = idx /\ IsNull(raw.rows[i].c["ticket"])

PlainChars(pat) == \A i \in 1..Len(pat) : pat[i] \notin {".", "("}

\* C4: a row whose ticket is null or missing in the source is never kept
\* by a non-empty search, and is kept when no search is active.  (Stated
\* for the searches of plain characters, which the code matches literally.)
C4_NullTicketExcluded ==
    (phase = "done" /\ PlainChars(widgets.ticket)) =>
        \A i \in 1..Len(df.rows) :
            SourceTicketMissing(df.rows[i].idx) =>
                IF Strip(widgets.ticket) # <<>> THEN ~Kept(df.rows[i].idx)
                ELSE Kept(df.rows[i].idx)

---------------------------------------------------------------------------
(* Claims about the application, checked under Spec *)

\* C7: the revenues by payment add up to kpis()['ca'] and the counts by
\* payment to kpis()['tx'], for every filtered table.
C7_PaymentGroupsAddUp ==
    phase = "done" => Total(ca_pay) = m.ca /\ Total(tx_pay) = m.tx

\* a proper, non-empty part of the table, with a blank payment in it
C7_Witness ==
    /\ phase = "done"
    /\ Len(df_f.rows) > 1
    /\ Len(df_f.rows) < Len(df.rows)
    /\ Text(INCONNU) \in DOMAIN ca_pay
    /\ Cardinality(DOMAIN ca_pay) > 1

\* C8: when the filters select no row, kpis() is all zero and
\* insights_auto() is the single no-data message, and the run ends
\* without an exception.
C8_EmptyResult ==
    (phase \in {"done", "failed"} /\ raised = "none" /\ Len(df_f.rows) = 0) =>
        /\ phase = "done"
        /\ m = [tx |-> 0, ca |-> 0, panier |-> [num |-> 0, den |-> 1]]
        /\ msgs = <<NoDataMsg>>

\* no row selected out of a table that has some: an empty selection
C8_Witness ==
    /\ phase = "done"
    /\ Len(df.rows) > 0
    /\ Len(df_f.rows) = 0
    /\ widgets.pay = {}

\* the revenue of hour h in the filtered table
HourRevenue(h) ==
    SumAmount(SelectSeq(df_f.rows, LAMBDA r: r.c["hour"].n = h))

HoursOf(t) == {t.rows[i].c["hour"].n : i \in 1..Len(t.rows)}

Listed(msg) == {msg.hours[i].h : i \in 1..Len(msg.hours)}

MinOf(a, b) == IF a < b THEN a ELSE b

\* C9: over a non-empty filtered table with k hours, the first message
\* lists min(3, k) hours by revenue, non-increasing, none below an hour it
\* leaves out; the second lists min(3, k) hours, non-decreasing, none
\* above an hour it leaves out.
C9_TopBottomHours ==
    (phase = "done" /\ Len(df_f.rows) > 0) =>
        /\ Len(msgs) >= 2
        /\ msgs[1].kind = "top"
        /\ msgs[2].kind = "low"
        /\ \A n \in 1..2 :
              /\ Len(msgs[n].hours) = MinOf(3, Cardinality(HoursOf(df_f)))
              /\ Cardinality(Listed(msgs[n])) = Len(msgs[n].hours)
              /\ Listed(msgs[n]) \subseteq HoursOf(df_f)
              /\ \A i \in 1..Len(msgs[n].hours) :
                    msgs[n].hours[i].v = HourRevenue(msgs[n].hours[i].h)
        /\ \A i \in 1..Len(msgs[1].hours) :
              /\ i > 1 => msgs[1].hours[i - 1].v >= msgs[1].hours[i].v
              /\ \A h \in HoursOf(df_f) \ Listed(msgs[1]) :
                    msgs[1].hours[i].v >= HourRevenue(h)
        /\ \A i \in 1..Len(msgs[2].hours) :
              /\ i > 1 => msgs[2].hours[i - 1].v <= msgs[2].hours[i].v
              /\ \A h \in HoursOf(df_f) \ Listed(msgs[2]) :
                    msgs[2].hours[i].v <= HourRevenue(h)

\* five hours, two of them tied, so that both lists leave hours out
C9_Witness ==
    /\ phase = "done"
    /\ Cardinality(HoursOf(df_f)) = 5
    /\ msgs[1].hours[2].v = msgs[1].hours[3].v
    /\ Listed(msgs[1]) # Listed(msgs[2])

\* C10: the table handed to prepare() is the parse of the bytes now at
\* data_path, whatever was uploaded or toggled before.
C10_LoadedIsCurrentFile ==
    (phase \in {"done", "failed"} /\ data_path # "none") =>
        raw = ReadCsv(disk[data_path])

=============================================================================
